---- MODULE Spec2Model ----
(***************************************************************************)
(* Injury risk predictor: the causal metric library (src/src/ml/features), *)
(* the serving-time feature assembler and encoder (backend/app/ml) and the *)
(* predictor singleton (backend/app/routers/predictions).                  *)
(*                                                                         *)
(* Numbers.  Loads are integer valued.  Every value the library derives    *)
(* from them is kept exactly: a rational is a reduced pair <<n, d>> with   *)
(* d > 0, and monotony and strain, which divide by a standard deviation,   *)
(* are kept as the non-negative square root of a rational n/d, <<n, d, 2>>.*)
(* A division by zero is the value ZeroDivision, an exception of the code. *)
(***************************************************************************)
EXTENDS Integers, Sequences, FiniteSets, TLC

VARIABLES
    df,                \* the athlete's frame the features are computed from
    athlete_profile,   \* age, experience_years, baseline_weekly_load
    features,          \* <<>> or <<the feature mapping>>
    target_week,       \* the week the features were computed at
    training_history,  \* the request's list of training weeks
    _predictor,        \* the module-level singleton: <<>> (None) or <<instance>>
    train_encoders,    \* the label encoders fit when the classifier was trained
    hash_seed,         \* the process's string hash randomisation
    phase,             \* "idle", "received" or "done": where the request stands
    feature_vector,    \* predict's local feature_vector
    feature_array,     \* predict's local encoded_features / feature_array
    result,            \* <<>> or <<what predict returned or raised>>
    response,          \* <<>> or <<the HTTP answer of the route>>
    models_dir,        \* the files of the models directory
    pc,                \* where each caller of get_predictor stands
    constructed,       \* each caller's InjuryPredictor() not yet assigned
    obtained,          \* what get_predictor last returned to each caller
    load_count,        \* how many InjuryPredictor() constructions completed
    served             \* the requests answered so far, each with its result

metricVars == <<df, athlete_profile, features, target_week>>

servingVars ==
    <<training_history, _predictor, train_encoders, hash_seed, phase,
      feature_vector, feature_array, result, response, served>>

loadVars == <<models_dir, pc, constructed, obtained, load_count>>

vars == <<metricVars, servingVars, loadVars>>

(***************************************************************************)
(* Bounds of the model.                                                    *)
(***************************************************************************)
MaxWeek == 5

MaxLen == 5

MaxInjured == 1

Loads == {0, 35}

MaxHistory == 2

MaxHistWeek == 2

NumCallers == 2

MaxAge == 50

MaxYears == 12

ServeLoads == {20, 35}

Ages == {20, 30, 40, 50}

Experiences == {1, 5, 12}

HashSeeds == {11, 500}

(***************************************************************************)
(* Exact arithmetic.                                                       *)
(***************************************************************************)
Abs(n) == IF n < 0 THEN -n ELSE n

Max(a, b) == IF a >= b THEN a ELSE b

Min(a, b) == IF a <= b THEN a ELSE b

RECURSIVE Gcd(_, _)
Gcd(a, b) == IF b = 0 THEN a ELSE Gcd(b, a % b)

\* the outcome of a division by zero (ZeroDivisionError); it is no rational
ZeroDivision == <<0, 0>>

Frac(n, d) ==
    IF d = 0 THEN ZeroDivision
    ELSE LET g == Gcd(Abs(n), Abs(d))
             s == IF d < 0 THEN -1 ELSE 1
         IN  <<(s * n) \div g, (s * d) \div g>>

Rat(n) == <<n, 1>>

Zero == Rat(0)

One == Rat(1)

IsRat(x) == x[2] > 0

\* an operand that is ZeroDivision has denominator 0, and so has the result
RAdd(a, b) == Frac(a[1] * b[2] + b[1] * a[2], a[2] * b[2])

RSub(a, b) == Frac(a[1] * b[2] - b[1] * a[2], a[2] * b[2])

RMul(a, b) == Frac(a[1] * b[1], a[2] * b[2])

RDiv(a, b) == Frac(a[1] * b[2], a[2] * b[1])

RLess(a, b) == a[1] * b[2] < b[1] * a[2]

\* the non-negative square root of the rational q
RootOf(q) == <<q[1], q[2], 2>>

\* the rational under the root
Squared(r) == <<r[1], r[2]>>

RootOne == RootOf(One)

RECURSIVE SeqSum(_)
SeqSum(s) == IF s = <<>> THEN 0 ELSE Head(s) + SeqSum(Tail(s))

RECURSIVE SeqSumSq(_)
SeqSumSq(s) == IF s = <<>> THEN 0 ELSE Head(s) * Head(s) + SeqSumSq(Tail(s))

\* Series.mean()
Mean(s) == Frac(SeqSum(s), Len(s))

\* Series.std(): sample variance (ddof = 1), (n*sum(x^2) - sum(x)^2) / (n*(n-1))
Variance(s) ==
    Frac(Len(s) * SeqSumSq(s) - SeqSum(s) * SeqSum(s), Len(s) * (Len(s) - 1))

RECURSIVE InsertSorted(_, _)
InsertSorted(x, s) ==
    IF s = <<>> THEN <<x>>
    ELSE IF x < Head(s) THEN <<x>> \o s
    ELSE <<Head(s)>> \o InsertSorted(x, Tail(s))

RECURSIVE SortInts(_)
SortInts(s) == IF s = <<>> THEN <<>> ELSE InsertSorted(Head(s), SortInts(Tail(s)))

\* Series.median()
Median(s) ==
    LET t == SortInts(s)
        n == Len(t)
    IN  IF n % 2 = 1 THEN Rat(t[(n + 1) \div 2])
        ELSE Frac(t[n \div 2] + t[n \div 2 + 1], 2)

(***************************************************************************)
(* Data frames: a sequence of rows [week, weekly_load, injured].           *)
(***************************************************************************)
Row(w, l, inj) == [week |-> w, weekly_load |-> l, injured |-> inj]

WeeksOf(d) == {d[i].week : i \in DOMAIN d}

UniqueWeeks(d) == \A i, j \in DOMAIN d : d[i].week = d[j].week => i = j

RECURSIVE InsertByWeek(_, _)
InsertByWeek(r, s) ==
    IF s = <<>> THEN <<r>>
    ELSE IF r.week < Head(s).week THEN <<r>> \o s
    ELSE <<Head(s)>> \o InsertByWeek(r, Tail(s))

\* a frame left in the order its rows were listed in
sort_values_as_listed(d) == d

\* df.sort_values('week')
RECURSIVE sort_values(_)
sort_values(d) ==
    IF d = <<>> THEN <<>>
    ELSE InsertByWeek(d[Len(d)], sort_values(SubSeq(d, 1, Len(d) - 1)))

\* athlete_data[athlete_data['week'] == week]
RowsOfWeek(d, week) == SelectSeq(d, LAMBDA r : r.week = week)

\* athlete_data.index.get_loc(current_idx[0]): position of the first row of the week
PosOfWeek(d, week) == CHOOSE i \in DOMAIN d :
    /\ d[i].week = week
    /\ \A j \in DOMAIN d : d[j].week = week => i <= j

LoadsOf(d) == [i \in DOMAIN d |-> d[i].weekly_load]

\* a window that is taken from the end of the frame, not from the row of week
TrailingWindowFromEnd(d, week, window) ==
    LET athlete_data == sort_values(d)
        start_pos == Max(1, Len(athlete_data) - window + 1)
    IN  SubSeq(athlete_data, start_pos, Len(athlete_data))

\* athlete_data.iloc[start_pos:current_pos + 1] for the window ending at week
TrailingWindow(d, week, window) ==
    LET athlete_data == sort_values(d)
        current_pos == PosOfWeek(athlete_data, week)
        start_pos == Max(1, current_pos - window + 1)
    IN  SubSeq(athlete_data, start_pos, current_pos)

\* a window of the rows before week that also takes the row of week
PrecedingWindowThroughCurrent(d, week, window) ==
    LET athlete_data == sort_values(d)
        current_pos == PosOfWeek(athlete_data, week)
        start_pos == Max(1, current_pos - window)
    IN  SubSeq(athlete_data, start_pos, current_pos)

\* athlete_data.iloc[start_pos:current_pos] for the rows strictly before week
PrecedingWindow(d, week, window) ==
    LET athlete_data == sort_values(d)
        current_pos == PosOfWeek(athlete_data, week)
        start_pos == Max(1, current_pos - window)
    IN  SubSeq(athlete_data, start_pos, current_pos - 1)

(***************************************************************************)
(* The causal metric library.                                              *)
(***************************************************************************)
ChronicWindow == 4

MonotonyWindow == 4

TrendWindow == 2

BaselineWindow == 12

InjuryWindow == 8

calculate_acute_load(d, week) ==
    LET current_week == RowsOfWeek(sort_values(d), week)
    IN  IF Len(current_week) = 0 THEN Zero
        ELSE Rat(current_week[1].weekly_load)

chronic_load_window(d, week, window) ==
    IF RowsOfWeek(sort_values(d), week) = <<>> THEN Zero
    ELSE LET window_data == TrailingWindow(d, week, window)
         IN  IF Len(window_data) = 0 THEN Zero
             ELSE Mean(LoadsOf(window_data))

\* a chronic load that averages the whole history up to week
calculate_chronic_load_expanding(d, week) ==
    chronic_load_window(d, week, Len(d) + 1)

\* a chronic load over the four rows before week, without the row of week
calculate_chronic_load_of_preceding(d, week) ==
    IF RowsOfWeek(sort_values(d), week) = <<>> THEN Zero
    ELSE LET window_data == PrecedingWindow(d, week, ChronicWindow)
         IN  IF Len(window_data) = 0 THEN Zero
             ELSE Mean(LoadsOf(window_data))

calculate_chronic_load(d, week) == chronic_load_window(d, week, ChronicWindow)

\* the ratio without its zero guard
calculate_acwr_unguarded(d, week) ==
    RDiv(calculate_acute_load(d, week), calculate_chronic_load(d, week))

calculate_acwr(d, week) ==
    LET acute == calculate_acute_load(d, week)
        chronic == calculate_chronic_load(d, week)
    IN  IF chronic = Zero THEN Zero
        ELSE RDiv(acute, chronic)

\* monotony without the guard on a zero standard deviation
calculate_monotony_unguarded(d, week) ==
    IF RowsOfWeek(sort_values(d), week) = <<>> THEN RootOne
    ELSE LET window_data == LoadsOf(TrailingWindow(d, week, MonotonyWindow))
         IN  IF Len(window_data) < 2 THEN RootOne
             ELSE RootOf(RDiv(RMul(Mean(window_data), Mean(window_data)),
                              Variance(window_data)))

\* monotony that is 0 rather than 1 on a window of fewer than two rows
calculate_monotony_zero_when_short(d, week) ==
    IF RowsOfWeek(sort_values(d), week) = <<>> THEN RootOne
    ELSE LET window_data == LoadsOf(TrailingWindow(d, week, MonotonyWindow))
         IN  IF Len(window_data) < 2 THEN RootOf(Zero)
             ELSE LET mean_load == Mean(window_data)
                      var_load == Variance(window_data)
                  IN  IF var_load = Zero THEN RootOne
                      ELSE RootOf(RDiv(RMul(mean_load, mean_load), var_load))

calculate_monotony(d, week) ==
    IF RowsOfWeek(sort_values(d), week) = <<>> THEN RootOne
    ELSE LET window_data == LoadsOf(TrailingWindow(d, week, MonotonyWindow))
         IN  IF Len(window_data) < 2 THEN RootOne
             ELSE LET mean_load == Mean(window_data)
                      var_load == Variance(window_data)
                  IN  IF var_load = Zero THEN RootOne
                      ELSE RootOf(RDiv(RMul(mean_load, mean_load), var_load))

calculate_strain(d, week) ==
    LET current_week == RowsOfWeek(sort_values(d), week)
    IN  IF Len(current_week) = 0 THEN RootOf(Zero)
        ELSE LET weekly_load == Rat(current_week[1].weekly_load)
                 monotony == calculate_monotony(d, week)
             IN  RootOf(RMul(RMul(weekly_load, weekly_load), Squared(monotony)))

\* the change against the previous row of the frame, whatever its week
calculate_week_over_week_change_by_position(d, week) ==
    LET athlete_data == sort_values(d)
        current_week == RowsOfWeek(athlete_data, week)
    IN  IF Len(current_week) = 0 THEN Zero
        ELSE IF PosOfWeek(athlete_data, week) = 1 THEN Zero
        ELSE LET current_load == Rat(current_week[1].weekly_load)
                 prev_load ==
                     Rat(athlete_data[PosOfWeek(athlete_data, week) - 1].weekly_load)
             IN  IF prev_load = Zero THEN Zero
                 ELSE RMul(RDiv(RSub(current_load, prev_load), prev_load), Rat(100))

calculate_week_over_week_change(d, week) ==
    LET athlete_data == sort_values(d)
        current_week == RowsOfWeek(athlete_data, week)
        prev_week_data == RowsOfWeek(athlete_data, week - 1)
    IN  IF Len(current_week) = 0 THEN Zero
        ELSE IF Len(prev_week_data) = 0 THEN Zero
        ELSE LET current_load == Rat(current_week[1].weekly_load)
                 prev_load == Rat(prev_week_data[1].weekly_load)
             IN  IF prev_load = Zero THEN Zero
                 ELSE RMul(RDiv(RSub(current_load, prev_load), prev_load), Rat(100))

\* slope of the least-squares line through (0, y[1]), (1, y[2]), ...
\* (LinearRegression().fit(range(n), y).coef_[0])
RECURSIVE SumIdxTimes(_, _)
SumIdxTimes(y, i) ==
    IF i > Len(y) THEN Zero
    ELSE RAdd(RMul(Rat(i - 1), y[i]), SumIdxTimes(y, i + 1))

RECURSIVE SumRat(_, _)
SumRat(y, i) == IF i > Len(y) THEN Zero ELSE RAdd(y[i], SumRat(y, i + 1))

Slope(y) ==
    LET n == Len(y)
        sx == (n * (n - 1)) \div 2
        sxx == ((n - 1) * n * (2 * n - 1)) \div 6
    IN  RDiv(RSub(RMul(Rat(n), SumIdxTimes(y, 1)), RMul(Rat(sx), SumRat(y, 1))),
             Rat(n * sxx - sx * sx))

\* a trend against the week numbered one less, present or not
calculate_acwr_trend_by_week_number(d, week) ==
    IF RowsOfWeek(sort_values(d), week) = <<>> THEN Zero
    ELSE IF Len(TrailingWindow(d, week, TrendWindow)) < 2 THEN Zero
    ELSE Slope(<<calculate_acwr(d, week - 1), calculate_acwr(d, week)>>)

calculate_acwr_trend(d, week) ==
    IF RowsOfWeek(sort_values(d), week) = <<>> THEN Zero
    ELSE LET window_data == TrailingWindow(d, week, TrendWindow)
         IN  IF Len(window_data) < 2 THEN Zero
             ELSE LET acwr_values ==
                          [i \in DOMAIN window_data |->
                              calculate_acwr(d, window_data[i].week)]
                  IN  Slope(acwr_values)

\* threshold = 1.3
AcwrThreshold == <<13, 10>>

\* the backward loop of calculate_weeks_above_threshold from position i
RECURSIVE CountAbove(_, _, _)
CountAbove(d, athlete_data, i) ==
    IF i < 1 THEN 0
    ELSE IF RLess(AcwrThreshold, calculate_acwr(d, athlete_data[i].week))
         THEN 1 + CountAbove(d, athlete_data, i - 1)
         ELSE 0

\* a loop that skips a record at or below the threshold instead of stopping
RECURSIVE CountAboveUnbroken(_, _, _)
CountAboveUnbroken(d, athlete_data, i) ==
    IF i < 1 THEN 0
    ELSE (IF RLess(AcwrThreshold, calculate_acwr(d, athlete_data[i].week))
          THEN 1 ELSE 0) + CountAboveUnbroken(d, athlete_data, i - 1)

calculate_weeks_above_threshold_unbroken(d, week) ==
    LET athlete_data == sort_values(d)
    IN  IF RowsOfWeek(athlete_data, week) = <<>> THEN 0
        ELSE CountAboveUnbroken(d, athlete_data, PosOfWeek(athlete_data, week))

calculate_weeks_above_threshold(d, week) ==
    LET athlete_data == sort_values(d)
    IN  IF RowsOfWeek(athlete_data, week) = <<>> THEN 0
        ELSE CountAbove(d, athlete_data, PosOfWeek(athlete_data, week))

calculate_distance_from_baseline(d, week) ==
    LET current_week == RowsOfWeek(sort_values(d), week)
    IN  IF Len(current_week) = 0 THEN Zero
        ELSE LET current_load == Rat(current_week[1].weekly_load)
                 baseline_data == LoadsOf(PrecedingWindow(d, week, BaselineWindow))
             IN  IF Len(baseline_data) = 0 THEN Zero
                 ELSE LET baseline_load == Median(baseline_data)
                      IN  IF baseline_load = Zero THEN Zero
                          ELSE RMul(RDiv(RSub(current_load, baseline_load),
                                         baseline_load), Rat(100))

calculate_lag_features(d, week, lag_weeks) ==
    LET lag_week == week - lag_weeks
    IN  IF lag_week < 1 THEN Zero ELSE calculate_acwr(d, lag_week)

calculate_recent_injury(d, week) ==
    IF RowsOfWeek(sort_values(d), week) = <<>> THEN 0
    ELSE LET window_data == PrecedingWindow(d, week, InjuryWindow)
         IN  IF Len(window_data) = 0 THEN 0
             ELSE IF \E i \in DOMAIN window_data :
                         /\ "injured" \in DOMAIN window_data[i]
                         /\ window_data[i].injured
                  THEN 1 ELSE 0

\* groups whose lower cutoff belongs to the group below
bin_age_inclusive(age) ==
    IF age <= 26 THEN "young_adult"
    ELSE IF age <= 36 THEN "adult"
    ELSE IF age <= 46 THEN "masters"
    ELSE "senior"

bin_age(age) ==
    IF age < 26 THEN "young_adult"
    ELSE IF age < 36 THEN "adult"
    ELSE IF age < 46 THEN "masters"
    ELSE "senior"

bin_experience(experience_years) ==
    IF experience_years < 3 THEN "novice"
    ELSE IF experience_years < 6 THEN "intermediate"
    ELSE IF experience_years < 10 THEN "advanced"
    ELSE "expert"

\* the twelve metrics derived from the timeline, as both assemblers compute them
TimelineMetrics(d, week) ==
    [acute_load |-> calculate_acute_load(d, week),
     chronic_load |-> calculate_chronic_load(d, week),
     acwr |-> calculate_acwr(d, week),
     monotony |-> calculate_monotony(d, week),
     strain |-> calculate_strain(d, week),
     week_over_week_change |-> calculate_week_over_week_change(d, week),
     acwr_trend |-> calculate_acwr_trend(d, week),
     weeks_above_threshold |-> calculate_weeks_above_threshold(d, week),
     distance_from_baseline |-> calculate_distance_from_baseline(d, week),
     previous_week_acwr |-> calculate_lag_features(d, week, 1),
     two_weeks_ago_acwr |-> calculate_lag_features(d, week, 2),
     recent_injury |-> calculate_recent_injury(d, week)]

\* the athlete columns (age, experience_years, baseline_weekly_miles) are the
\* same on every row of the athlete; profile holds them
AthleteFeatures(d, profile) ==
    IF Len(d) > 0
    THEN [age |-> profile.age,
          age_group |-> bin_age(profile.age),
          experience_years |-> profile.experience_years,
          experience_level |-> bin_experience(profile.experience_years),
          baseline_weekly_miles |-> profile.baseline_weekly_load]
    ELSE [age |-> 0,
          age_group |-> "unknown",
          experience_years |-> 0,
          experience_level |-> "unknown",
          baseline_weekly_miles |-> 0]

\* the assembly with the interaction feature of lines 472-473 switched on
engineer_all_features_with_interactions(d, profile, week) ==
    TimelineMetrics(d, week) @@ AthleteFeatures(d, profile)
        @@ [acwr_x_age |-> RMul(calculate_acwr(d, week), Rat(profile.age))]

engineer_all_features(d, profile, week) ==
    TimelineMetrics(d, week) @@ AthleteFeatures(d, profile)

(***************************************************************************)
(* Label encoding (sklearn's LabelEncoder as preprocessing uses it).       *)
(***************************************************************************)
\* the labels in lexicographic order, the order LabelEncoder sorts classes_ in
AlphaOrder ==
    <<"adult", "advanced", "expert", "intermediate", "masters", "novice",
      "senior", "unknown", "young_adult">>

AlphaRank(label) == CHOOSE i \in DOMAIN AlphaOrder : AlphaOrder[i] = label

RECURSIVE SortLabels(_)
SortLabels(S) ==
    IF S = {} THEN <<>>
    ELSE LET m == CHOOSE l \in S : \A k \in S : AlphaRank(l) <= AlphaRank(k)
         IN  <<m>> \o SortLabels(S \ {m})

\* le.fit(column): classes_ are the distinct labels of the column, sorted
LabelEncoderFit(column) == SortLabels({column[i] : i \in DOMAIN column})

\* what stands for the ValueError of transform on a label not in classes_
UnseenLabel == -1

\* le.transform: the 0-based index of the label in classes_
LabelEncoderTransform(classes, label) ==
    IF \E i \in DOMAIN classes : classes[i] = label
    THEN (CHOOSE i \in DOMAIN classes : classes[i] = label) - 1
    ELSE UnseenLabel

\* the columns of dtype object: the string-valued features
CategoricalNames == {"age_group", "experience_level"}

\* the columns whose values are Python ints
IntNames ==
    {"weeks_above_threshold", "recent_injury", "age", "experience_years",
     "baseline_weekly_miles"}

ColumnOf(rows, c) == [i \in DOMAIN rows |-> rows[i][c]]

\* fits a fresh LabelEncoder on every categorical column of the frame it is
\* given and replaces the column by its codes
encode_categorical_features(rows) ==
    LET categorical_cols ==
            {c \in CategoricalNames : \A i \in DOMAIN rows : c \in DOMAIN rows[i]}
        encoders ==
            [c \in categorical_cols |-> LabelEncoderFit(ColumnOf(rows, c))]
    IN  [frame |->
            [i \in DOMAIN rows |->
                [c \in DOMAIN rows[i] |->
                    IF c \in categorical_cols
                    THEN LabelEncoderTransform(encoders[c], rows[i][c])
                    ELSE rows[i][c]]],
         encoders |-> encoders]

(***************************************************************************)
(* The serving-time assembler and encoder (backend/app/ml/features).       *)
(***************************************************************************)
\* pd.DataFrame(training_history).sort_values('week'); it has no injured column
HistoryFrame(history) ==
    sort_values([i \in DOMAIN history |->
                    [week |-> history[i].week,
                     weekly_load |-> history[i].weekly_load]])

calculate_features_for_prediction(history, profile, current_week) ==
    TimelineMetrics(HistoryFrame(history), current_week) @@
        [age |-> profile.age,
         age_group |-> bin_age(profile.age),
         experience_years |-> profile.experience_years,
         experience_level |-> bin_experience(profile.experience_years),
         baseline_weekly_miles |-> profile.baseline_weekly_load]

\* float(value) of a column
ToFloat(name, value) == IF name \in IntNames THEN Rat(value) ELSE value

\* hash(value) of a str: fixed within a process, different from one to another
StrHash(label, seed) == (AlphaRank(label) * 7919 + seed) % 1000003

EndsWithGroupOrLevel(name) == name \in {"age_group", "experience_level"}

\* the loop of prepare_features_for_model from position i on
RECURSIVE PrepareLoop(_, _, _, _)
PrepareLoop(feats, order, seed, i) ==
    IF i > Len(order) THEN <<>>
    ELSE LET feature_name == order[i]
             entry ==
                 IF feature_name \in DOMAIN feats
                 THEN IF feature_name \in CategoricalNames
                      THEN IF EndsWithGroupOrLevel(feature_name)
                           THEN Rat(StrHash(feats[feature_name], seed) % 1000)
                           ELSE Zero
                      ELSE ToFloat(feature_name, feats[feature_name])
                 ELSE Zero
         IN  <<entry>> \o PrepareLoop(feats, order, seed, i + 1)

prepare_features_for_model(feats, order, seed) == PrepareLoop(feats, order, seed, 1)

(***************************************************************************)
(* The loaded artifacts: classifier and scaler.                            *)
(***************************************************************************)
DefaultFeatureOrder ==
    <<"acute_load", "chronic_load", "acwr", "monotony", "strain",
      "week_over_week_change", "acwr_trend", "weeks_above_threshold",
      "distance_from_baseline", "previous_week_acwr", "two_weeks_ago_acwr",
      "recent_injury", "age", "age_group", "experience_years",
      "experience_level", "baseline_weekly_miles">>

\* a persisted order with an interaction feature the assembler does not produce
SkewedFeatureOrder ==
    <<"acwr", "age_group", "acwr_x_age", "monotony", "experience_level", "age">>

\* _determine_feature_order: the scaler's names, else the classifier's, else
\* the hardcoded order
DetermineFeatureOrder(model, scaler) ==
    IF scaler.feature_names_in_ # <<>> THEN scaler.feature_names_in_
    ELSE IF model.feature_names_in_ # <<>> THEN model.feature_names_in_
    ELSE DefaultFeatureOrder

\* (x - mean_) / scale_ of one entry; an entry that is a root keeps its
\* parameters, <<n, d, 2, mean, scale>>
ScaleEntry(x, mean, scale) ==
    IF Len(x) = 2 THEN RDiv(RSub(x, Rat(mean)), Rat(scale))
    ELSE <<x[1], x[2], 2, mean, scale>>

ValueError == [ok |-> FALSE, error |-> "ValueError"]

\* scaler.transform: raises ValueError when the array has not the number of
\* features the scaler was fit on
ScalerTransform(scaler, x) ==
    IF Len(x) # scaler.n_features_in_ THEN <<>>
    ELSE [i \in DOMAIN x |-> ScaleEntry(x[i], scaler.mean_, scaler.scale_)]

\* X[:, 0] > 1.5 on a scaled entry
Above15(x) ==
    IF Len(x) = 2 THEN RLess(<<3, 2>>, x)
    ELSE LET rhs2 == 3 * x[5] + 2 * x[4]
         IN  rhs2 < 0 \/ 4 * x[1] > x[2] * rhs2 * rhs2

\* BaselineModel.predict and predict_proba(...)[0][1]
BaselinePredict(x) == IF Above15(x[1]) THEN 1 ELSE 0

BaselineProba(x) == IF BaselinePredict(x) = 1 THEN <<7, 10>> ELSE <<3, 20>>

RECURSIVE Checksum(_)
Checksum(x) == IF x = <<>> THEN 0 ELSE Abs(Head(x)[1]) + Checksum(Tail(x))

\* a fitted estimator is a fixed function of its input: outputs is what it
\* answers on each class of inputs
EstimatorOutput(model, x) == model.outputs[(Checksum(x) % Len(model.outputs)) + 1]

\* a classifier that keeps fitting: certain of an injury once it has answered
RiskProbDrifting(model, x) ==
    IF served # {} THEN One
    ELSE IF model.name = "BaselineModel" THEN BaselineProba(x)
    ELSE EstimatorOutput(model, x)

\* lines 152-158 of predict: the probability of the positive class when the
\* classifier has predict_proba, else float(prediction)
RiskProb(model, x) ==
    IF model.predict_proba
    THEN IF model.name = "BaselineModel" THEN BaselineProba(x)
         ELSE EstimatorOutput(model, x)
    ELSE EstimatorOutput(model, x)

\* tiers whose cutoffs belong to the lower tier
_get_risk_level_exclusive(prob) ==
    IF ~RLess(<<3, 10>>, prob) THEN "LOW"
    ELSE IF ~RLess(<<3, 5>>, prob) THEN "MODERATE"
    ELSE "HIGH"

_get_risk_level(prob) ==
    IF RLess(prob, <<3, 10>>) THEN "LOW"
    ELSE IF RLess(prob, <<3, 5>>) THEN "MODERATE"
    ELSE "HIGH"

\* a root sqrt(q) compared with a non-negative number: sqrt(q) > t iff q > t*t
RootAbove(r, t) == RLess(Rat(t * t), Squared(r))

\* the rules with the strain message ahead of the monotony message
_generate_recommendations_reordered(feats, risk_prob) ==
    LET acwr == feats.acwr
        week_change == feats.week_over_week_change
    IN  (IF RLess(<<3, 2>>, acwr) THEN <<"acwr_high">>
         ELSE IF RLess(<<13, 10>>, acwr) THEN <<"acwr_moderate">>
         ELSE IF RLess(acwr, <<4, 5>>) THEN <<"acwr_low">>
         ELSE <<"acwr_optimal">>)
        \o (IF RLess(<<1, 5>>, week_change) THEN <<"week_change_large">>
            ELSE IF RLess(<<3, 20>>, week_change) THEN <<"week_change_moderate">>
            ELSE <<>>)
        \o (IF RootAbove(feats.strain, 150) THEN <<"strain_high">> ELSE <<>>)
        \o (IF RootAbove(feats.monotony, 2) THEN <<"monotony_high">> ELSE <<>>)
        \o (IF RLess(risk_prob, <<3, 10>>) THEN <<"risk_low">>
            ELSE IF RLess(<<7, 10>>, risk_prob) THEN <<"risk_high">>
            ELSE <<>>)

_generate_recommendations(feats, risk_prob) ==
    LET acwr == feats.acwr
        monotony == feats.monotony
        week_change == feats.week_over_week_change
        strain == feats.strain
    IN  (IF RLess(<<3, 2>>, acwr) THEN <<"acwr_high">>
         ELSE IF RLess(<<13, 10>>, acwr) THEN <<"acwr_moderate">>
         ELSE IF RLess(acwr, <<4, 5>>) THEN <<"acwr_low">>
         ELSE <<"acwr_optimal">>)
        \o (IF RLess(<<1, 5>>, week_change) THEN <<"week_change_large">>
            ELSE IF RLess(<<3, 20>>, week_change) THEN <<"week_change_moderate">>
            ELSE <<>>)
        \o (IF RootAbove(monotony, 2) THEN <<"monotony_high">> ELSE <<>>)
        \o (IF RootAbove(strain, 150) THEN <<"strain_high">> ELSE <<>>)
        \o (IF RLess(risk_prob, <<3, 10>>) THEN <<"risk_low">>
            ELSE IF RLess(<<7, 10>>, risk_prob) THEN <<"risk_high">>
            ELSE <<>>)

\* the loop of predict over feature_order, from position i on
RECURSIVE EncodedLoop(_, _, _)
EncodedLoop(encoded_row, order, i) ==
    IF i > Len(order) THEN <<>>
    ELSE LET feature_name == order[i]
             entry ==
                 IF feature_name \in DOMAIN encoded_row
                 THEN IF feature_name \in CategoricalNames
                      THEN Rat(encoded_row[feature_name])
                      ELSE ToFloat(feature_name, encoded_row[feature_name])
                 ELSE Zero
         IN  <<entry>> \o EncodedLoop(encoded_row, order, i + 1)

\* a loop that appends nothing for a name the encoded row lacks
RECURSIVE EncodedLoopSkipping(_, _, _)
EncodedLoopSkipping(encoded_row, order, i) ==
    IF i > Len(order) THEN <<>>
    ELSE IF order[i] \in DOMAIN encoded_row
         THEN <<IF order[i] \in CategoricalNames
                THEN Rat(encoded_row[order[i]])
                ELSE ToFloat(order[i], encoded_row[order[i]])>>
              \o EncodedLoopSkipping(encoded_row, order, i + 1)
         ELSE EncodedLoopSkipping(encoded_row, order, i + 1)

EncodedFeaturesSkipping(feats, order) ==
    EncodedLoopSkipping(encode_categorical_features(<<feats>>).frame[1], order, 1)

\* lines 134-147 of predict: the encoder is fit on the one-row frame of the
\* request and the encoded row is put in the order of feature_order
EncodedFeatures(feats, order) ==
    EncodedLoop(encode_categorical_features(<<feats>>).frame[1], order, 1)

\* the week of the last entry of the list
LastListedWeek(history) == history[Len(history)].week

RECURSIVE MaxWeekOf(_)
MaxWeekOf(history) ==
    IF Len(history) = 1 THEN history[1].week
    ELSE Max(history[1].week, MaxWeekOf(Tail(history)))

\* None
None == <<>>

TopCount == 5

\* position j comes after position i in np.argsort(importances): a greater
\* importance, or an equal one at a later position
SortsAfter(importances, j, i) ==
    \/ RLess(importances[i], importances[j])
    \/ (importances[i] = importances[j] /\ j > i)

\* np.argsort(importances)[-5:][::-1], as the set of its (1-based) positions
TopIndices(importances) ==
    {i \in DOMAIN importances :
        Cardinality({j \in DOMAIN importances : SortsAfter(importances, j, i)})
            < TopCount}

\* top indices from the head of the ascending order instead of its tail
BottomIndices(importances) ==
    {i \in DOMAIN importances :
        Cardinality({j \in DOMAIN importances : SortsAfter(importances, i, j)})
            < TopCount}

_get_feature_contributions_of_smallest(self) ==
    LET importances == self.model.feature_importances_
        order == self.feature_order
        kept == {i \in BottomIndices(importances) : i <= Len(order)}
    IN  IF kept = {} THEN None
        ELSE <<[name \in {order[i] : i \in kept} |->
                   importances[CHOOSE i \in kept : order[i] = name]]>>

\* _get_feature_contributions: the dict is written in descending order of
\* importance, so of two positions with one name the later written stays
_get_feature_contributions(self) ==
    LET importances == self.model.feature_importances_
        order == self.feature_order
        kept == {i \in TopIndices(importances) : i <= Len(order)}
    IN  IF importances = <<>> THEN None
        ELSE IF kept = {} THEN None
        ELSE <<[name \in {order[i] : i \in kept} |->
                   importances[CHOOSE i \in kept :
                       /\ order[i] = name
                       /\ \A j \in kept :
                              (order[j] = name /\ j # i)
                                  => SortsAfter(importances, j, i)]]>>

\* what predict_proba / predict of the classifier raises: <<>> when it answers
EstimatorError(model) ==
    IF "raises" \in DOMAIN model THEN <<model.raises>> ELSE <<>>

\* InjuryPredictor.predict: what it returns, or the exception it raises
PredictOutcome(self, history, profile, seed) ==
    IF history = <<>> THEN ValueError
    ELSE LET current_week == MaxWeekOf(history)
             feats == calculate_features_for_prediction(history, profile, current_week)
             array == EncodedFeatures(feats, self.feature_order)
             feature_scaled == ScalerTransform(self.scaler, array)
         IN  IF feature_scaled = <<>> THEN ValueError
             ELSE IF EstimatorError(self.model) # <<>>
             THEN [ok |-> FALSE, error |-> EstimatorError(self.model)[1]]
             ELSE LET risk_prob == RiskProb(self.model, feature_scaled)
                  IN  [ok |-> TRUE,
                       risk_level |-> _get_risk_level(risk_prob),
                       risk_score |-> risk_prob,
                       acwr |-> feats.acwr,
                       monotony |-> feats.monotony,
                       strain |-> feats.strain,
                       week_over_week_change |-> feats.week_over_week_change,
                       recommendations |->
                           _generate_recommendations(feats, risk_prob),
                       feature_contributions |-> _get_feature_contributions(self)]

\* a predict that keeps the encoders it fits on the request in self.encoders
SelfKeepingEncoders(self, history, profile) ==
    IF history = <<>> THEN self
    ELSE [self EXCEPT !.encoders =
             <<encode_categorical_features(
                   <<calculate_features_for_prediction(
                         history, profile, MaxWeekOf(history))>>).encoders>>]

\* the predictor after predict ran: predict assigns no attribute of self (the
\* encoders of line 137 are bound to a local name), and neither transform nor
\* predict_proba changes a fitted scaler or classifier
SelfAfterPredict(self, history, profile) == self

\* InjuryPredictor.get_model_info (the estimators here have neither
\* n_estimators nor max_depth)
get_model_info(self) ==
    [model_type |-> self.model.name,
     features |-> self.feature_order,
     model_loaded |-> self.model # None,
     scaler_loaded |-> self.scaler # None]

\* the route /model/info: ModelInfoResponse keeps model_type and features
ModelInfoRoute(self) ==
    LET info == get_model_info(self)
    IN  [status |-> 200, model_type |-> info.model_type, features |-> info.features]

\* PredictionResponse(**result): risk_score must lie in [0, 1]
ResponseValid(res) == ~RLess(res.risk_score, Zero) /\ ~RLess(One, res.risk_score)

\* the route: a ValueError (pydantic's ValidationError is one) is answered
\* with 400, any other exception with 500, the result with 200
RouteResponse(outcome) ==
    IF ~outcome.ok
    THEN IF outcome.error = "ValueError" THEN [status |-> 400] ELSE [status |-> 500]
    ELSE IF ~ResponseValid(outcome) THEN [status |-> 400]
    ELSE [status |-> 200]

(***************************************************************************)
(* The metric library at work: rows are appended to an athlete's frame     *)
(* (pd.concat), each with a week later than the rows it holds, and the     *)
(* features of one week are then engineered from the frame as built.       *)
(***************************************************************************)
\* rows 1..4 of the sample_data fixture
SampleRows ==
    <<Row(1, 20, FALSE), Row(2, 22, FALSE), Row(3, 25, FALSE), Row(4, 30, FALSE)>>

SampleProfile == [age |-> 30, experience_years |-> 5, baseline_weekly_load |-> 30]

\* a frame whose rows are not in week order
UnsortedRows == <<Row(3, 35, FALSE), Row(1, 20, TRUE)>>

InitialFrames == {<<>>, SampleRows, UnsortedRows}

LastWeek(d) == IF d = <<>> THEN 0 ELSE CHOOSE w \in WeeksOf(d) : \A v \in WeeksOf(d) : v <= w

NumInjured(d) == Cardinality({i \in DOMAIN d : d[i].injured})

\* a models directory without files
EmptyDir == [model |-> <<>>, scaler |-> <<>>]

Callers == 1..NumCallers

\* no caller is inside get_predictor and nothing was constructed
NoCalls ==
    /\ pc = [t \in Callers |-> "idle"]
    /\ constructed = [t \in Callers |-> <<>>]
    /\ obtained = [t \in Callers |-> <<>>]
    /\ load_count = 0

InitMetrics ==
    /\ df \in InitialFrames
    /\ athlete_profile = SampleProfile
    /\ features = <<>>
    /\ target_week = 0
    /\ training_history = <<>>
    /\ _predictor = <<>>
    /\ train_encoders = <<>>
    /\ hash_seed = 0
    /\ phase = "idle"
    /\ feature_vector = <<>>
    /\ feature_array = <<>>
    /\ result = <<>>
    /\ response = <<>>
    /\ served = {}
    /\ models_dir = EmptyDir
    /\ NoCalls

AppendRow(w, l, inj) ==
    /\ features = <<>>
    /\ Len(df) < MaxLen
    /\ w > LastWeek(df)
    /\ inj => NumInjured(df) < MaxInjured
    /\ df' = Append(df, Row(w, l, inj))
    /\ UNCHANGED <<athlete_profile, features, target_week, servingVars, loadVars>>

EngineerFeatures(w) ==
    /\ features = <<>>
    /\ features' = <<engineer_all_features(df, athlete_profile, w)>>
    /\ target_week' = w
    /\ UNCHANGED <<df, athlete_profile, servingVars, loadVars>>

NextMetrics ==
    \/ \E w \in 1..MaxWeek, l \in Loads, inj \in BOOLEAN : AppendRow(w, l, inj)
    \/ \E w \in 1..MaxWeek : EngineerFeatures(w)

SpecMetrics == InitMetrics /\ [][NextMetrics]_vars

(***************************************************************************)
(* Serving: the predictor is loaded, requests are received and answered.   *)
(***************************************************************************)
\* InjuryPredictor.__init__ on artifacts that load
InjuryPredictor(id, model, scaler) ==
    [id |-> id,
     model |-> model,
     scaler |-> scaler,
     feature_order |-> DetermineFeatureOrder(model, scaler),
     encoders |-> <<>>]

ProbaOutputs ==
    <<Rat(0), <<1, 5>>, <<3, 10>>, <<1, 2>>, <<3, 5>>, <<7, 10>>, <<4, 5>>, Rat(1)>>

\* the importances of a fitted forest, in hundredths, one per training column
ImportancePercents == <<5, 10, 30, 2, 8, 12, 3, 4, 6, 1, 1, 2, 5, 3, 4, 2, 2>>

ForestImportances == [i \in DOMAIN ImportancePercents |-> Frac(ImportancePercents[i], 100)]

ForestModel ==
    [name |-> "RandomForestClassifier", predict_proba |-> TRUE,
     outputs |-> ProbaOutputs, feature_names_in_ |-> DefaultFeatureOrder,
     feature_importances_ |-> ForestImportances]

UnnamedForestModel ==
    [name |-> "RandomForestClassifier", predict_proba |-> TRUE,
     outputs |-> ProbaOutputs, feature_names_in_ |-> <<>>,
     feature_importances_ |-> ForestImportances]

BaselineModel ==
    [name |-> "BaselineModel", predict_proba |-> TRUE,
     outputs |-> <<>>, feature_names_in_ |-> <<>>, feature_importances_ |-> <<>>]

\* estimators without predict_proba: one that predicts the labels 0 and 1 and
\* one that predicts a real number
LabelModel ==
    [name |-> "LinearSVC", predict_proba |-> FALSE,
     outputs |-> <<Rat(0), Rat(1)>>, feature_names_in_ |-> <<>>,
     feature_importances_ |-> <<>>]

RegressorModel ==
    [name |-> "Ridge", predict_proba |-> FALSE,
     outputs |-> <<Rat(-1), <<1, 2>>, Rat(2)>>, feature_names_in_ |-> <<>>,
     feature_importances_ |-> <<>>]

\* a classifier whose predict_proba raises (a pickle of another library version)
BrokenModel ==
    [name |-> "GradientBoostingClassifier", predict_proba |-> TRUE,
     outputs |-> <<>>, feature_names_in_ |-> <<>>, feature_importances_ |-> <<>>,
     raises |-> "AttributeError"]

StandardScaler(mean, scale, names, n) ==
    [mean_ |-> mean, scale_ |-> scale, feature_names_in_ |-> names,
     n_features_in_ |-> n]

\* the pairs of classifier and scaler found in the models directory
Artifacts ==
    {<<ForestModel, StandardScaler(0, 1, DefaultFeatureOrder, 17)>>,
     <<BaselineModel, StandardScaler(1, 2, SkewedFeatureOrder, 6)>>,
     <<LabelModel, StandardScaler(0, 1, <<>>, 17)>>,
     <<RegressorModel, StandardScaler(0, 1, DefaultFeatureOrder, 17)>>,
     <<ForestModel, StandardScaler(1, 2, <<>>, 17)>>,
     <<UnnamedForestModel, StandardScaler(0, 1, <<>>, 16)>>,
     <<BrokenModel, StandardScaler(0, 1, DefaultFeatureOrder, 17)>>}

\* the categorical columns of the frames the classifier was trained on
FullTrainingFrame ==
    <<[age_group |-> "young_adult", experience_level |-> "novice"],
      [age_group |-> "adult", experience_level |-> "intermediate"],
      [age_group |-> "masters", experience_level |-> "advanced"],
      [age_group |-> "senior", experience_level |-> "expert"],
      [age_group |-> "adult", experience_level |-> "novice"]>>

PartialTrainingFrame ==
    <<[age_group |-> "masters", experience_level |-> "intermediate"],
      [age_group |-> "adult", experience_level |-> "expert"]>>

TrainingFrames == {FullTrainingFrame, PartialTrainingFrame}

HistoryRows ==
    {[week |-> w, weekly_load |-> l] : w \in 1..MaxHistWeek, l \in ServeLoads}

ExampleHistory ==
    <<[week |-> 1, weekly_load |-> 20], [week |-> 2, weekly_load |-> 22],
      [week |-> 3, weekly_load |-> 24], [week |-> 4, weekly_load |-> 26],
      [week |-> 5, weekly_load |-> 35]>>

\* a rise of 10 percent from one week to the next
GentleHistory ==
    <<[week |-> 1, weekly_load |-> 20], [week |-> 2, weekly_load |-> 22]>>

\* a fourfold load in the second week: ACWR 80 / 50
SpikeHistory ==
    <<[week |-> 1, weekly_load |-> 20], [week |-> 2, weekly_load |-> 80]>>

\* the five weeks of the example, listed out of order
ShuffledHistory ==
    <<ExampleHistory[3], ExampleHistory[5], ExampleHistory[1], ExampleHistory[4],
      ExampleHistory[2]>>

\* week 1 listed twice, which the request's validation lets through
RepeatedHistory ==
    <<[week |-> 1, weekly_load |-> 20], [week |-> 1, weekly_load |-> 35]>>

Histories ==
    {h \in UNION {[1..n -> HistoryRows] : n \in 0..MaxHistory} : UniqueWeeks(h)}
        \cup {ExampleHistory, ShuffledHistory, GentleHistory, SpikeHistory,
              RepeatedHistory}

Profiles ==
    {[age |-> a, experience_years |-> e, baseline_weekly_load |-> 25] :
        a \in Ages, e \in Experiences}

InitPredict ==
    /\ \E a \in Artifacts :
           /\ models_dir = [model |-> <<a[1]>>, scaler |-> <<a[2]>>]
           /\ _predictor = <<InjuryPredictor(1, a[1], a[2])>>
    /\ pc = [t \in Callers |-> "idle"]
    /\ constructed = [t \in Callers |-> <<>>]
    /\ obtained = [t \in Callers |-> <<>>]
    /\ load_count = 1
    /\ \E t \in TrainingFrames :
           train_encoders = <<encode_categorical_features(t).encoders>>
    /\ hash_seed \in HashSeeds
    /\ phase = "idle"
    /\ training_history = <<>>
    /\ athlete_profile = SampleProfile
    /\ df = <<>>
    /\ features = <<>>
    /\ target_week = 0
    /\ feature_vector = <<>>
    /\ feature_array = <<>>
    /\ result = <<>>
    /\ response = <<>>
    /\ served = {}

\* a caller hands predict a training history and an athlete profile
ReceiveRequest(history, profile) ==
    /\ phase = "idle"
    /\ phase' = "received"
    /\ training_history' = history
    /\ athlete_profile' = profile
    /\ UNCHANGED <<df, features, target_week, _predictor, train_encoders,
                   hash_seed, feature_vector, feature_array, result, response,
                   served, loadVars>>

\* predict_injury_risk: get_predictor() finds the loaded singleton, predict
\* runs on the request and the route turns its outcome into the answer
Predict ==
    /\ phase = "received"
    /\ _predictor # <<>>
    /\ LET self == _predictor[1]
           outcome == PredictOutcome(self, training_history, athlete_profile,
                                     hash_seed)
       IN  /\ result' = <<outcome>>
           /\ response' = <<RouteResponse(outcome)>>
           /\ IF training_history = <<>>
              THEN UNCHANGED <<df, features, target_week, feature_vector,
                               feature_array>>
              ELSE LET current_week == MaxWeekOf(training_history)
                       feats == calculate_features_for_prediction(
                                    training_history, athlete_profile, current_week)
                   IN  /\ df' = HistoryFrame(training_history)
                       /\ target_week' = current_week
                       /\ features' = <<feats>>
                       /\ feature_vector' =
                              prepare_features_for_model(feats, self.feature_order,
                                                         hash_seed)
                       /\ feature_array' = EncodedFeatures(feats, self.feature_order)
    /\ phase' = "done"
    /\ _predictor' =
           <<SelfAfterPredict(_predictor[1], training_history, athlete_profile)>>
    /\ UNCHANGED <<training_history, athlete_profile, train_encoders,
                   hash_seed, served, loadVars>>

\* the answer is sent; the request's frame and features are discarded
Respond ==
    /\ phase = "done"
    /\ phase' = "idle"
    /\ training_history' = <<>>
    /\ athlete_profile' = SampleProfile
    /\ df' = <<>>
    /\ features' = <<>>
    /\ target_week' = 0
    /\ feature_vector' = <<>>
    /\ feature_array' = <<>>
    /\ result' = <<>>
    /\ response' = <<>>
    /\ UNCHANGED <<_predictor, train_encoders, hash_seed, served, loadVars>>

NextPredict ==
    \/ \E h \in Histories, p \in Profiles : ReceiveRequest(h, p)
    \/ Predict
    \/ Respond

SpecPredict == InitPredict /\ [][NextPredict]_vars

(***************************************************************************)
(* Replay: the same requests are sent again and again to one process, and   *)
(* every answer is kept in served with the request it answers.             *)
(***************************************************************************)
ReplayHistories ==
    {<<[week |-> 1, weekly_load |-> 20]>>, GentleHistory, SpikeHistory}

ReplayProfiles ==
    {[age |-> 20, experience_years |-> 1, baseline_weekly_load |-> 25],
     [age |-> 40, experience_years |-> 5, baseline_weekly_load |-> 25]}

InitReplay ==
    /\ \E a \in Artifacts :
           /\ models_dir = [model |-> <<a[1]>>, scaler |-> <<a[2]>>]
           /\ _predictor = <<InjuryPredictor(1, a[1], a[2])>>
    /\ pc = [t \in Callers |-> "idle"]
    /\ constructed = [t \in Callers |-> <<>>]
    /\ obtained = [t \in Callers |-> <<>>]
    /\ load_count = 1
    /\ train_encoders = <<encode_categorical_features(FullTrainingFrame).encoders>>
    /\ hash_seed \in HashSeeds
    /\ phase = "idle"
    /\ training_history = <<>>
    /\ athlete_profile = SampleProfile
    /\ df = <<>>
    /\ features = <<>>
    /\ target_week = 0
    /\ feature_vector = <<>>
    /\ feature_array = <<>>
    /\ result = <<>>
    /\ response = <<>>
    /\ served = {}

\* the answer is sent and kept with its request
RespondAndKeep ==
    /\ phase = "done"
    /\ served' = served \cup {[history |-> training_history,
                               profile |-> athlete_profile,
                               result |-> result[1]]}
    /\ phase' = "idle"
    /\ training_history' = <<>>
    /\ athlete_profile' = SampleProfile
    /\ df' = <<>>
    /\ features' = <<>>
    /\ target_week' = 0
    /\ feature_vector' = <<>>
    /\ feature_array' = <<>>
    /\ result' = <<>>
    /\ response' = <<>>
    /\ UNCHANGED <<_predictor, train_encoders, hash_seed, loadVars>>

\* get_model_info (the route): between two predictions the loaded predictor
\* is asked what it is
GetModelInfo ==
    /\ phase = "idle"
    /\ _predictor # <<>>
    /\ response' = <<ModelInfoRoute(_predictor[1])>>
    /\ UNCHANGED <<metricVars, training_history, _predictor, train_encoders,
                   hash_seed, phase, feature_vector, feature_array, result,
                   served, loadVars>>

NextReplay ==
    \/ \E h \in ReplayHistories, p \in ReplayProfiles : ReceiveRequest(h, p)
    \/ Predict
    \/ RespondAndKeep
    \/ GetModelInfo

SpecReplay == InitReplay /\ [][NextReplay]_vars

(***************************************************************************)
(* Loading: callers of get_predictor, statement by statement.              *)
(***************************************************************************)
\* the service starts before any artifact was saved
InitLoad ==
    /\ models_dir = EmptyDir
    /\ _predictor = <<>>
    /\ NoCalls
    /\ train_encoders = <<>>
    /\ hash_seed = 0
    /\ phase = "idle"
    /\ training_history = <<>>
    /\ athlete_profile = SampleProfile
    /\ df = <<>>
    /\ features = <<>>
    /\ target_week = 0
    /\ feature_vector = <<>>
    /\ feature_array = <<>>
    /\ result = <<>>
    /\ response = <<>>
    /\ served = {}

\* save_model writes the classifier's file
SaveModelFile(a) ==
    /\ models_dir = EmptyDir
    /\ models_dir' = [models_dir EXCEPT !.model = <<a[1]>>]
    /\ UNCHANGED <<metricVars, servingVars, pc, constructed, obtained, load_count>>

\* save_model writes scaler.pkl after the classifier's file
SaveScalerFile ==
    /\ models_dir.model # <<>>
    /\ models_dir.scaler = <<>>
    /\ \E a \in Artifacts :
           /\ a[1] = models_dir.model[1]
           /\ models_dir' = [models_dir EXCEPT !.scaler = <<a[2]>>]
    /\ UNCHANGED <<metricVars, servingVars, pc, constructed, obtained, load_count>>

\* a handler calls get_predictor()
CallGetPredictor(t) ==
    /\ pc[t] = "idle"
    /\ pc' = [pc EXCEPT ![t] = "line23"]
    /\ UNCHANGED <<metricVars, servingVars, models_dir, constructed, obtained,
                   load_count>>

\* line 23: if _predictor is None
TestNone(t) ==
    /\ pc[t] = "line23"
    /\ pc' = [pc EXCEPT ![t] = IF _predictor = <<>> THEN "line24" ELSE "line25"]
    /\ UNCHANGED <<metricVars, servingVars, models_dir, constructed, obtained,
                   load_count>>

\* line 24, right-hand side: InjuryPredictor() reads the classifier and the
\* scaler; a missing file raises out of get_predictor
Construct(t) ==
    /\ pc[t] = "line24"
    /\ IF models_dir.model = <<>> \/ models_dir.scaler = <<>>
       THEN /\ pc' = [pc EXCEPT ![t] = "idle"]
            /\ obtained' = [obtained EXCEPT ![t] = <<>>]
            /\ UNCHANGED <<constructed, load_count>>
       ELSE /\ constructed' =
                   [constructed EXCEPT ![t] =
                       <<InjuryPredictor(load_count + 1, models_dir.model[1],
                                         models_dir.scaler[1])>>]
            /\ load_count' = load_count + 1
            /\ pc' = [pc EXCEPT ![t] = "assign"]
            /\ UNCHANGED obtained
    /\ UNCHANGED <<metricVars, servingVars, models_dir>>

\* line 24, the assignment to the global
Assign(t) ==
    /\ pc[t] = "assign"
    /\ _predictor' = constructed[t]
    /\ constructed' = [constructed EXCEPT ![t] = <<>>]
    /\ pc' = [pc EXCEPT ![t] = "line25"]
    /\ UNCHANGED <<metricVars, training_history, train_encoders, hash_seed, phase,
                   feature_vector, feature_array, result, response, served,
                   models_dir, obtained, load_count>>

\* line 25: return _predictor
Return(t) ==
    /\ pc[t] = "line25"
    /\ obtained' = [obtained EXCEPT ![t] = _predictor]
    /\ pc' = [pc EXCEPT ![t] = "idle"]
    /\ UNCHANGED <<metricVars, servingVars, models_dir, constructed, load_count>>

NextLoad ==
    \/ \E a \in Artifacts : SaveModelFile(a)
    \/ SaveScalerFile
    \/ \E t \in Callers : CallGetPredictor(t)
    \/ \E t \in Callers : TestNone(t)
    \/ \E t \in Callers : Construct(t)
    \/ \E t \in Callers : Assign(t)
    \/ \E t \in Callers : Return(t)

SpecLoad == InitLoad /\ [][NextLoad]_vars

(***************************************************************************)
(* The service, handler by handler: the startup event, the three routes    *)
(* and the files of the models directory, which may be missing or          *)
(* unreadable when a handler asks for the predictor.                       *)
(***************************************************************************)
\* what pickle.load raises on a file it cannot read: an UnpicklingError on a
\* damaged file, a ValueError on an unsupported pickle protocol
PickleErrors == {"UnpicklingError", "ValueError"}

UnreadableFile(e) == [unreadable |-> e]

Unreadable(file) == "unreadable" \in DOMAIN file

\* the slot of a file of the directory holds nothing that can be loaded
NotLoadable(slot) == IF slot = <<>> THEN TRUE ELSE Unreadable(slot[1])

\* a constructor that keeps going when scaler.pkl cannot be loaded
InjuryPredictorKeepingGoing(dir, id) ==
    IF dir.model = <<>>
    THEN [ok |-> FALSE, error |-> "FileNotFoundError", stage |-> "model"]
    ELSE IF Unreadable(dir.model[1])
    THEN [ok |-> FALSE, error |-> dir.model[1].unreadable, stage |-> "model"]
    ELSE IF NotLoadable(dir.scaler)
    THEN [ok |-> TRUE,
          predictor |-> [id |-> id, model |-> dir.model[1], scaler |-> None,
                         feature_order |-> DefaultFeatureOrder, encoders |-> <<>>]]
    ELSE [ok |-> TRUE,
          predictor |-> InjuryPredictor(id, dir.model[1], dir.scaler[1])]

\* InjuryPredictor(): _load_model, then _load_scaler, then
\* _determine_feature_order; each loader logs and re-raises
InjuryPredictorOutcome(dir, id) ==
    IF dir.model = <<>>
    THEN [ok |-> FALSE, error |-> "FileNotFoundError", stage |-> "model"]
    ELSE IF Unreadable(dir.model[1])
    THEN [ok |-> FALSE, error |-> dir.model[1].unreadable, stage |-> "model"]
    ELSE IF dir.scaler = <<>>
    THEN [ok |-> FALSE, error |-> "FileNotFoundError", stage |-> "scaler"]
    ELSE IF Unreadable(dir.scaler[1])
    THEN [ok |-> FALSE, error |-> dir.scaler[1].unreadable, stage |-> "scaler"]
    ELSE [ok |-> TRUE,
          predictor |-> InjuryPredictor(id, dir.model[1], dir.scaler[1])]

\* get_predictor of routers/predictions.py, called by one handler at a time
GetPredictorOutcome(current, dir, count) ==
    IF current = <<>> THEN InjuryPredictorOutcome(dir, count + 1)
    ELSE [ok |-> TRUE, predictor |-> current[1]]

\* the names app/ml/predictor.py defines at module level
PredictorModuleNames == {"InjuryPredictor", "logger"}

\* from .ml.predictor import get_predictor
ImportGetPredictor == "get_predictor" \in PredictorModuleNames

Unhealthy == [status |-> 200, health |-> "unhealthy", model_loaded |-> FALSE]

\* health_check: every exception, the ImportError included, is answered with
\* the unhealthy body
health_check(current, dir, count) ==
    IF ~ImportGetPredictor THEN Unhealthy
    ELSE LET got == GetPredictorOutcome(current, dir, count)
         IN  IF ~got.ok THEN Unhealthy
             ELSE [status |-> 200, health |-> "healthy",
                   model_loaded |-> got.predictor.model # None
                                        /\ got.predictor.scaler # None]

\* the singleton after a handler that reached get_predictor
SingletonAfter(current, got) ==
    IF got.ok THEN <<got.predictor>> ELSE current

LoadsAfter(current, got, count) ==
    IF got.ok /\ current = <<>> THEN count + 1 ELSE count

\* the requests the service has answered with a failed load behind them
Failed(route, got, answer) ==
    [route |-> route, stage |-> got.stage, status |-> answer.status]

InitService ==
    /\ models_dir = EmptyDir
    /\ _predictor = <<>>
    /\ NoCalls
    /\ train_encoders = <<encode_categorical_features(FullTrainingFrame).encoders>>
    /\ hash_seed = 11
    /\ phase = "starting"
    /\ training_history = <<>>
    /\ athlete_profile = SampleProfile
    /\ df = <<>>
    /\ features = <<>>
    /\ target_week = 0
    /\ feature_vector = <<>>
    /\ feature_array = <<>>
    /\ result = <<>>
    /\ response = <<>>
    /\ served = {}

\* save_model writes the classifier's file, over a missing or unreadable one
InstallModelFile(a) ==
    /\ NotLoadable(models_dir.model)
    /\ NotLoadable(models_dir.scaler)
    /\ models_dir' = [models_dir EXCEPT !.model = <<a[1]>>]
    /\ UNCHANGED <<metricVars, servingVars, pc, constructed, obtained, load_count>>

\* save_model writes scaler.pkl after the classifier's file
InstallScalerFile ==
    /\ ~NotLoadable(models_dir.model)
    /\ NotLoadable(models_dir.scaler)
    /\ \E a \in Artifacts :
           /\ a[1] = models_dir.model[1]
           /\ models_dir' = [models_dir EXCEPT !.scaler = <<a[2]>>]
    /\ UNCHANGED <<metricVars, servingVars, pc, constructed, obtained, load_count>>

\* a file that pickle cannot load is put where the classifier is expected
DamageModelFile(e) ==
    /\ models_dir.model = <<>>
    /\ models_dir' = [models_dir EXCEPT !.model = <<UnreadableFile(e)>>]
    /\ UNCHANGED <<metricVars, servingVars, pc, constructed, obtained, load_count>>

\* a file that pickle cannot load is put where the scaler is expected
DamageScalerFile(e) ==
    /\ models_dir.scaler = <<>>
    /\ models_dir' = [models_dir EXCEPT !.scaler = <<UnreadableFile(e)>>]
    /\ UNCHANGED <<metricVars, servingVars, pc, constructed, obtained, load_count>>

\* startup_event: the import, the load and their failure are all inside the
\* try; whatever is raised is logged and the service starts
StartupEvent ==
    /\ phase = "starting"
    /\ phase' = "idle"
    /\ LET got == GetPredictorOutcome(_predictor, models_dir, load_count)
       IN  IF ImportGetPredictor
           THEN /\ _predictor' = SingletonAfter(_predictor, got)
                /\ load_count' = LoadsAfter(_predictor, got, load_count)
           ELSE UNCHANGED <<_predictor, load_count>>
    /\ UNCHANGED <<metricVars, training_history, train_encoders, hash_seed,
                   feature_vector, feature_array, result, response, served,
                   models_dir, pc, constructed, obtained>>

\* GET /health
HealthCheck ==
    /\ phase # "starting"
    /\ phase' = "health"
    /\ response' = <<health_check(_predictor, models_dir, load_count)>>
    /\ result' = <<>>
    /\ LET got == GetPredictorOutcome(_predictor, models_dir, load_count)
       IN  IF ImportGetPredictor
           THEN /\ _predictor' = SingletonAfter(_predictor, got)
                /\ load_count' = LoadsAfter(_predictor, got, load_count)
           ELSE UNCHANGED <<_predictor, load_count>>
    /\ UNCHANGED <<metricVars, training_history, train_encoders, hash_seed,
                   feature_vector, feature_array, served, models_dir, pc,
                   constructed, obtained>>

\* POST /api/predict, the whole handler: get_predictor, predict, and the
\* except clauses that turn what was raised into the answer
ServePredict(history, profile) ==
    /\ phase # "starting"
    /\ phase' = "predict"
    /\ training_history' = history
    /\ athlete_profile' = profile
    /\ LET got == GetPredictorOutcome(_predictor, models_dir, load_count)
           outcome == IF got.ok
                      THEN PredictOutcome(got.predictor, history, profile, hash_seed)
                      ELSE got
       IN  /\ result' = <<outcome>>
           /\ response' = <<RouteResponse(outcome)>>
           /\ _predictor' = SingletonAfter(_predictor, got)
           /\ load_count' = LoadsAfter(_predictor, got, load_count)
           /\ served' = IF got.ok THEN served
                        ELSE served \cup {Failed("predict", got, RouteResponse(outcome))}
    /\ UNCHANGED <<df, features, target_week, train_encoders, hash_seed,
                   feature_vector, feature_array, models_dir, pc, constructed,
                   obtained>>

\* GET /api/model/info, the whole handler: every exception is answered with 500
ServeModelInfo ==
    /\ phase # "starting"
    /\ phase' = "model_info"
    /\ LET got == GetPredictorOutcome(_predictor, models_dir, load_count)
           answer == IF got.ok THEN ModelInfoRoute(got.predictor)
                     ELSE [status |-> 500]
       IN  /\ result' = IF got.ok THEN <<>> ELSE <<got>>
           /\ response' = <<answer>>
           /\ _predictor' = SingletonAfter(_predictor, got)
           /\ load_count' = LoadsAfter(_predictor, got, load_count)
           /\ served' = IF got.ok THEN served
                        ELSE served \cup {Failed("model_info", got, answer)}
    /\ UNCHANGED <<metricVars, training_history, train_encoders, hash_seed,
                   feature_vector, feature_array, models_dir, pc, constructed,
                   obtained>>

NextService ==
    \/ \E a \in Artifacts : InstallModelFile(a)
    \/ InstallScalerFile
    \/ \E e \in PickleErrors : DamageModelFile(e)
    \/ \E e \in PickleErrors : DamageScalerFile(e)
    \/ StartupEvent
    \/ HealthCheck
    \/ ServeModelInfo
    \/ \E p \in ReplayProfiles : ServePredict(GentleHistory, p)

SpecService == InitService /\ [][NextService]_vars

(***************************************************************************)
(* Bucketization: the athlete-specific features of every age and every     *)
(* number of years of experience.                                          *)
(***************************************************************************)
BinProfiles ==
    {[age |-> a, experience_years |-> e, baseline_weekly_load |-> 30] :
        a \in 0..MaxAge, e \in 0..MaxYears}

InitBins ==
    /\ df = SampleRows
    /\ athlete_profile \in BinProfiles
    /\ features = <<>>
    /\ target_week = 0
    /\ training_history = <<>>
    /\ _predictor = <<>>
    /\ train_encoders = <<>>
    /\ hash_seed = 0
    /\ phase = "idle"
    /\ feature_vector = <<>>
    /\ feature_array = <<>>
    /\ result = <<>>
    /\ response = <<>>
    /\ served = {}
    /\ models_dir = EmptyDir
    /\ NoCalls

\* lines 453-464 of engineer_all_features
BinProfile ==
    /\ features = <<>>
    /\ features' = <<AthleteFeatures(df, athlete_profile)>>
    /\ UNCHANGED <<df, athlete_profile, target_week, servingVars, loadVars>>

NextBins == BinProfile

SpecBins == InitBins /\ [][NextBins]_vars

(***************************************************************************)
(* A season: timelines longer than the baseline window of 12 rows and the  *)
(* injury window of 8 rows, listed in ascending or descending order, with  *)
(* one injured week.                                                       *)
(***************************************************************************)
SeasonLen == 14

SeasonSteps == {0, 7, 10}

SeasonFrames ==
    {[i \in 1..SeasonLen |->
         LET w == IF ascending THEN i ELSE SeasonLen + 1 - i
         IN  Row(w, step * w, w = j)] :
        step \in SeasonSteps, j \in 1..SeasonLen, ascending \in BOOLEAN}

InitSeason ==
    /\ df \in SeasonFrames
    /\ athlete_profile = SampleProfile
    /\ features = <<>>
    /\ target_week = 0
    /\ training_history = <<>>
    /\ _predictor = <<>>
    /\ train_encoders = <<>>
    /\ hash_seed = 0
    /\ phase = "idle"
    /\ feature_vector = <<>>
    /\ feature_array = <<>>
    /\ result = <<>>
    /\ response = <<>>
    /\ served = {}
    /\ models_dir = EmptyDir
    /\ NoCalls

NextSeason == \E w \in 1..(SeasonLen + 1) : EngineerFeatures(w)

SpecSeason == InitSeason /\ [][NextSeason]_vars

(***************************************************************************)
(* Properties of the metric library.                                       *)
(***************************************************************************)
Computed == features # <<>>

Present(w) == w \in WeeksOf(df)

\* the rows of the frame with a week up to w, and the n most recent of them
UpTo(d, w) == {i \in DOMAIN d : d[i].week <= w}

MostRecent(d, w, n) ==
    {i \in UpTo(d, w) : Cardinality({j \in UpTo(d, w) : d[j].week > d[i].week}) < n}

RECURSIVE SumLoads(_, _)
SumLoads(d, S) ==
    IF S = {} THEN 0
    ELSE LET i == CHOOSE j \in S : TRUE
         IN  d[i].weekly_load + SumLoads(d, S \ {i})

\* sum over S of (n * load - total)^2, n^2 times the sum of squared deviations
RECURSIVE SumSqDev(_, _, _, _)
SumSqDev(d, S, n, total) ==
    IF S = {} THEN 0
    ELSE LET i == CHOOSE j \in S : TRUE
             dev == n * d[i].weekly_load - total
         IN  dev * dev + SumSqDev(d, S \ {i}, n, total)

LoadAt(d, w) ==
    IF w \in WeeksOf(d)
    THEN d[CHOOSE i \in DOMAIN d : d[i].week = w].weekly_load
    ELSE 0

\* C1: adding a row whose week is greater than w leaves every timeline metric
\* computed at a present week w unchanged.
C1_Causality ==
    [][(Len(df') = Len(df) + 1 /\ SubSeq(df', 1, Len(df)) = df)
         => \A w \in WeeksOf(df) :
              df'[Len(df')].week > w
                => TimelineMetrics(df', w) = TimelineMetrics(df, w)]_vars

\* features of a week were engineered from a frame that holds later rows
C1_Witness ==
    /\ Computed
    /\ Present(target_week)
    /\ Cardinality({i \in DOMAIN df : df[i].week > target_week}) >= 2
    /\ Cardinality(UpTo(df, target_week)) >= 2

ExampleRows == Append(SampleRows, Row(5, 35, FALSE))

\* C7: chronic_load(w) is the mean load of the min(4, rows up to w) most recent
\* rows ending at w, 0 when w is absent; loads 20,22,25,30,35 give 28 and an
\* acwr of 35/28.
C7_ChronicLoad ==
    Computed =>
        LET f == features[1]
            W == MostRecent(df, target_week, ChronicWindow)
        IN  /\ Present(target_week) =>
                  /\ Cardinality(W) =
                         Min(ChronicWindow, Cardinality(UpTo(df, target_week)))
                  /\ f.chronic_load = Frac(SumLoads(df, W), Cardinality(W))
            /\ ~Present(target_week) => f.chronic_load = Zero
            /\ (df = ExampleRows /\ target_week = 5) =>
                  /\ f.chronic_load = Rat(28)
                  /\ f.acwr = Frac(35, 28)

\* the example of the fixture: five weeks of history, chronic load at week 5
C7_Witness ==
    /\ Computed
    /\ df = ExampleRows
    /\ target_week = 5
    /\ features[1].chronic_load = Rat(28)

\* C8: acwr(w) is acute_load(w) / chronic_load(w), and 0 whenever the chronic
\* load is 0; it is always a number.
C8_Acwr ==
    Computed =>
        LET f == features[1]
        IN  /\ IsRat(f.acwr)
            /\ f.chronic_load = Zero => f.acwr = Zero
            /\ f.chronic_load # Zero => f.acwr = RDiv(f.acute_load, f.chronic_load)
            /\ ~Present(target_week) => f.acwr = Zero

\* a present week whose whole window has load 0
C8_Witness ==
    /\ Computed
    /\ Present(target_week)
    /\ Cardinality(UpTo(df, target_week)) >= 2
    /\ features[1].chronic_load = Zero
    /\ features[1].acwr = Zero

C10_WeekOverWeek ==
    (Computed /\ Present(target_week)) =>
        LET f == features[1]
            cur == LoadAt(df, target_week)
            prev == LoadAt(df, target_week - 1)
        IN  IF (target_week - 1) \notin WeeksOf(df) \/ prev = 0
            THEN f.week_over_week_change = Zero
            ELSE f.week_over_week_change = Frac((cur - prev) * 100, prev)

\* a week whose predecessor by number is missing although earlier rows exist
C10_Witness ==
    /\ Computed
    /\ Present(target_week)
    /\ (target_week - 1) \notin WeeksOf(df)
    /\ \E i \in DOMAIN df : df[i].week < target_week /\ df[i].weekly_load = 20
    /\ LoadAt(df, target_week) = 35
    /\ features[1].week_over_week_change = Zero

(***************************************************************************)
(* Properties of serving.                                                  *)
(***************************************************************************)
Answered == phase = "done" /\ result # <<>>

Scored == Answered /\ result[1].ok

FeatureOrder == _predictor[1].feature_order

\* the code the encoders fit at training time give a label of column c
TrainingCode(c, label) == LabelEncoderTransform(train_encoders[1][c], label)

\* C2: the code predict puts in the classifier input for a categorical
\* feature is the code the training-time encoder gives the label.
C2_ServingCodesAreTrainingCodes ==
    (phase = "done" /\ feature_array # <<>>) =>
        \A i \in DOMAIN FeatureOrder :
            LET c == FeatureOrder[i]
            IN  (c \in CategoricalNames /\ TrainingCode(c, features[1][c]) # UnseenLabel)
                    => feature_array[i] = Rat(TrainingCode(c, features[1][c]))

\* C3: the array handed to the scaler has len(feature_order) entries, entry i
\* holds the value of feature_order[i], a name the mapping lacks gives 0.0, and
\* neither a missing name nor a category unseen in training makes encoding fail.
C3_EncodedArray ==
    (phase = "done" /\ training_history # <<>>) =>
        LET f == features[1]
        IN  /\ Len(feature_array) = Len(FeatureOrder)
            /\ Len(feature_vector) = Len(FeatureOrder)
            /\ \A i \in DOMAIN FeatureOrder :
                   LET name == FeatureOrder[i]
                   IN  IF name \notin DOMAIN f
                       THEN feature_array[i] = Zero /\ feature_vector[i] = Zero
                       ELSE IF name \in CategoricalNames
                       THEN /\ IsRat(feature_array[i])
                            /\ feature_array[i] # Rat(UnseenLabel)
                            /\ IsRat(feature_vector[i])
                       ELSE /\ feature_array[i] = ToFloat(name, f[name])
                            /\ feature_vector[i] = ToFloat(name, f[name])

\* an order with a name the assembler does not produce, and an athlete whose
\* age group no training row had
C3_Witness ==
    /\ phase = "done"
    /\ training_history # <<>>
    /\ \E i \in DOMAIN FeatureOrder :
           /\ FeatureOrder[i] \notin DOMAIN features[1]
           /\ feature_array[i] = Zero
    /\ "age_group" \in {FeatureOrder[i] : i \in DOMAIN FeatureOrder}
    /\ TrainingCode("age_group", features[1].age_group) = UnseenLabel
    /\ Len(feature_array) = 6

\* C5: risk_level is LOW exactly when risk_score < 0.3, MODERATE exactly when
\* 0.3 <= risk_score < 0.6 and HIGH exactly when risk_score >= 0.6.
C5_RiskTier ==
    Scored =>
        LET r == result[1]
        IN  /\ r.risk_level \in {"LOW", "MODERATE", "HIGH"}
            /\ r.risk_level = "LOW" <=> RLess(r.risk_score, <<3, 10>>)
            /\ r.risk_level = "MODERATE" <=>
                   (~RLess(r.risk_score, <<3, 10>>) /\ RLess(r.risk_score, <<3, 5>>))
            /\ r.risk_level = "HIGH" <=> ~RLess(r.risk_score, <<3, 5>>)

\* a score on the cutoff 0.3
C5_Witness ==
    /\ Scored
    /\ result[1].risk_score = <<3, 10>>
    /\ result[1].risk_level = "MODERATE"

\* a score on the cutoff 0.6
C5_WitnessHigh ==
    /\ Scored
    /\ result[1].risk_score = <<3, 5>>
    /\ result[1].risk_level = "HIGH"

\* C6: every result predict returns has risk_score within [0, 1], also when
\* the classifier has no predict_proba and its raw prediction is used.
C6_RiskScoreInUnitInterval ==
    Scored => (~RLess(result[1].risk_score, Zero) /\ ~RLess(One, result[1].risk_score))

(***************************************************************************)
(* Properties of loading.                                                  *)
(***************************************************************************)
\* C4: whatever the interleaving of the callers of get_predictor, at most one
\* InjuryPredictor() construction completes and all callers obtain the same
\* predictor instance.
C4_SingleFlight ==
    /\ load_count <= 1
    /\ \A s, t \in Callers :
           (obtained[s] # <<>> /\ obtained[t] # <<>>)
               => obtained[s][1].id = obtained[t][1].id

(***************************************************************************)
(* Properties of the derived metrics.                                      *)
(***************************************************************************)
\* the week of the record before w's in week order, 0 when w's is the first
PreviousRecordWeek(d, w) ==
    IF \E i \in DOMAIN d : d[i].week < w
    THEN CHOOSE v \in WeeksOf(d) :
             v < w /\ \A i \in DOMAIN d : d[i].week < w => d[i].week <= v
    ELSE 0

\* C11: weeks_above_threshold at a record is the count at the previous record
\* plus 1 when the record's ACWR is strictly above 1.3, and 0 otherwise (the
\* count before the first record being 0).
C11_WeeksAboveThreshold ==
    (Computed /\ Present(target_week)) =>
        LET f == features[1]
            before == calculate_weeks_above_threshold(
                          df, PreviousRecordWeek(df, target_week))
        IN  f.weeks_above_threshold =
                IF RLess(AcwrThreshold, f.acwr) THEN before + 1 ELSE 0

\* a third week in a row above the threshold, after a week at or below it
C11_Witness ==
    /\ Computed
    /\ Present(target_week)
    /\ features[1].weeks_above_threshold = 3
    /\ Cardinality(UpTo(df, target_week)) > 3

\* the reset: a record at or below the threshold right after one above it
C11_WitnessReset ==
    /\ Computed
    /\ Present(target_week)
    /\ features[1].weeks_above_threshold = 0
    /\ calculate_weeks_above_threshold(df, PreviousRecordWeek(df, target_week)) > 0

(***************************************************************************)
(* Properties of the recommendations.                                      *)
(***************************************************************************)
Recommended(tag) ==
    \E i \in DOMAIN result[1].recommendations : result[1].recommendations[i] = tag

\* C12: the large week-over-week message is emitted exactly when
\* week_over_week_change, a percentage, exceeds 20, and the moderate one exactly
\* when it exceeds 15 but not 20.
C12_WeekOverWeekMessages ==
    Scored =>
        LET change == features[1].week_over_week_change
        IN  /\ Recommended("week_change_large") <=> RLess(Rat(20), change)
            /\ Recommended("week_change_moderate") <=>
                   (RLess(Rat(15), change) /\ ~RLess(Rat(20), change))

C13_WitnessHigh ==
    /\ Scored
    /\ result[1].recommendations[1] = "acwr_high"
    /\ RLess(<<3, 2>>, features[1].acwr)

\* only the ACWR rule fires
C13_WitnessSingle ==
    /\ Scored
    /\ Len(result[1].recommendations) = 1

(***************************************************************************)
(* Properties of feature assembly.                                         *)
(***************************************************************************)
CanonicalNames ==
    {"acute_load", "chronic_load", "acwr", "monotony", "strain",
     "week_over_week_change", "acwr_trend", "weeks_above_threshold",
     "distance_from_baseline", "previous_week_acwr", "two_weeks_ago_acwr",
     "recent_injury", "age", "age_group", "experience_years",
     "experience_level", "baseline_weekly_miles"}

\* C14: for a non-empty timeline the assembled mapping has exactly the 17
\* canonical names, every numeric one holding a number (no division by zero or
\* other exception surfaced) and the two categorical ones a label.
C14_CanonicalFeatures ==
    (Computed /\ df # <<>>) =>
        LET f == features[1]
        IN  /\ DOMAIN f = CanonicalNames
            /\ Cardinality(DOMAIN f) = 17
            /\ \A name \in DOMAIN f :
                   IF name \in CategoricalNames
                   THEN f[name] \in {"young_adult", "adult", "masters", "senior",
                                     "novice", "intermediate", "advanced", "expert"}
                   ELSE IF name \in IntNames THEN f[name] \in Nat
                   ELSE f[name] # ZeroDivision /\ f[name][2] > 0

\* a single week of load 0: every guard against a zero denominator acts
C14_Witness ==
    /\ Computed
    /\ Len(df) = 1
    /\ target_week = df[1].week
    /\ df[1].weekly_load = 0
    /\ DOMAIN features[1] = CanonicalNames
    /\ features[1].acwr = Zero

(***************************************************************************)
(* Properties of predict.                                                  *)
(***************************************************************************)
\* C15: predict on an empty history raises the validation error before any
\* feature is computed and returns no result; on a non-empty history the
\* features are those of the greatest week number of the list, whatever its
\* order.
C15_EmptyHistoryAndTargetWeek ==
    phase = "done" =>
        IF training_history = <<>>
        THEN /\ result = <<ValueError>>
             /\ features = <<>>
             /\ feature_vector = <<>>
             /\ feature_array = <<>>
             /\ response = <<[status |-> 400]>>
        ELSE /\ \E i \in DOMAIN training_history :
                    /\ training_history[i].week = target_week
                    /\ features[1].acute_load = Rat(training_history[i].weekly_load)
             /\ \A i \in DOMAIN training_history :
                    training_history[i].week <= target_week

\* the empty history is refused
C15_Witness ==
    /\ phase = "done"
    /\ training_history = <<>>
    /\ result = <<ValueError>>

\* a list whose greatest week is not its last entry
C15_WitnessUnordered ==
    /\ phase = "done"
    /\ Len(training_history) = 2
    /\ training_history[1].week > training_history[2].week
    /\ target_week = training_history[1].week
    /\ result # <<>> /\ result[1].ok

(***************************************************************************)
(* Properties of bucketization.                                            *)
(***************************************************************************)
\* C16: age_group is young_adult below 26, adult for 26..35, masters for
\* 36..45 and senior from 46; experience_level is novice below 3, intermediate
\* for 3..5, advanced for 6..9 and expert from 10.
C16_Bucketization ==
    Computed =>
        LET f == features[1]
            age == athlete_profile.age
            years == athlete_profile.experience_years
        IN  /\ f.age = age
            /\ f.experience_years = years
            /\ f.age_group = "young_adult" <=> age < 26
            /\ f.age_group = "adult" <=> age \in 26..35
            /\ f.age_group = "masters" <=> age \in 36..45
            /\ f.age_group = "senior" <=> age >= 46
            /\ f.experience_level = "novice" <=> years < 3
            /\ f.experience_level = "intermediate" <=> years \in 3..5
            /\ f.experience_level = "advanced" <=> years \in 6..9
            /\ f.experience_level = "expert" <=> years >= 10

\* an age and a number of years on a cutoff
C16_Witness ==
    /\ Computed
    /\ athlete_profile.age = 26
    /\ features[1].age_group = "adult"
    /\ athlete_profile.experience_years = 10
    /\ features[1].experience_level = "expert"

\* C17: when the classifier exposes importances, feature_contributions has at
\* most 5 entries, each mapping feature_order[i] to importance[i] for an i
\* that fewer than 5 positions outrank; when it exposes none,
\* feature_contributions is None.
C17_FeatureContributions ==
    Scored =>
        LET importances == _predictor[1].model.feature_importances_
            contributions == result[1].feature_contributions
        IN  IF importances = <<>> THEN contributions = None
            ELSE contributions # None =>
                    /\ Cardinality(DOMAIN contributions[1]) <= 5
                    /\ \A name \in DOMAIN contributions[1] :
                           \E i \in DOMAIN importances :
                               /\ i <= Len(FeatureOrder)
                               /\ FeatureOrder[i] = name
                               /\ contributions[1][name] = importances[i]
                               /\ Cardinality({j \in DOMAIN importances :
                                      RLess(importances[i], importances[j])}) < 5

\* a forest's five contributions, the greatest being acwr's
C17_Witness ==
    /\ Scored
    /\ result[1].feature_contributions # None
    /\ DOMAIN result[1].feature_contributions[1] =
           {"acwr", "week_over_week_change", "chronic_load", "strain",
            "distance_from_baseline"}
    /\ result[1].feature_contributions[1].acwr = <<3, 10>>

\* a classifier without importances
C17_WitnessNone ==
    /\ Scored
    /\ _predictor[1].model.feature_importances_ = <<>>
    /\ result[1].feature_contributions = None

LoadedPredictor ==
    InjuryPredictor(1, models_dir.model[1], models_dir.scaler[1])

\* C19: no predict and no model_info call changes the classifier, the scaler
\* or feature_order established at load, and predict leaves the caller's
\* training_history and profile as they were handed over.
C19_Frame ==
    [][/\ _predictor' = _predictor
       /\ _predictor'[1].model = LoadedPredictor.model
       /\ _predictor'[1].scaler = LoadedPredictor.scaler
       /\ _predictor'[1].feature_order = LoadedPredictor.feature_order
       /\ phase = "received" =>
              /\ training_history' = training_history
              /\ athlete_profile' = athlete_profile]_vars

\* model_info answered after predictions were served, the predictor being
\* the loaded one
C19_Witness ==
    /\ phase = "idle"
    /\ Cardinality(served) >= 2
    /\ response # <<>>
    /\ "model_type" \in DOMAIN response[1]
    /\ _predictor = <<LoadedPredictor>>

\* neither the scaler nor the classifier carries feature names
Degraded(model, scaler) ==
    scaler.feature_names_in_ = <<>> /\ model.feature_names_in_ = <<>>

\* C20: feature_order is the scaler's names when it has some, else the
\* classifier's, else the 17 canonical names in their canonical order; and
\* what model_info reports of a predictor in that last, degraded mode differs
\* from what it reports of every predictor loaded with a persisted order.
C20_FeatureOrderFallback ==
    _predictor # <<>> =>
        LET self == _predictor[1]
        IN  /\ self.feature_order =
                   IF self.scaler.feature_names_in_ # <<>>
                   THEN self.scaler.feature_names_in_
                   ELSE IF self.model.feature_names_in_ # <<>>
                   THEN self.model.feature_names_in_
                   ELSE <<"acute_load", "chronic_load", "acwr", "monotony", "strain",
                          "week_over_week_change", "acwr_trend",
                          "weeks_above_threshold", "distance_from_baseline",
                          "previous_week_acwr", "two_weeks_ago_acwr",
                          "recent_injury", "age", "age_group", "experience_years",
                          "experience_level", "baseline_weekly_miles">>
            /\ (response # <<>> /\ "model_type" \in DOMAIN response[1]
                    /\ Degraded(self.model, self.scaler))
                   => \A a \in Artifacts :
                          ~Degraded(a[1], a[2])
                              => get_model_info(InjuryPredictor(1, a[1], a[2]))
                                     # get_model_info(self)

(***************************************************************************)
(* Properties of the route's error answers.                                *)
(***************************************************************************)
\* C21: when the scaler or the classifier raises while a non-empty history is
\* scored, whatever the exception, the answer is the server error 500 and not
\* the client error 400.
C21_ScoringFailureIsServerError ==
    (phase = "done" /\ training_history # <<>> /\ ~result[1].ok)
        => response[1].status = 500

(***************************************************************************)
(* Properties of the frame the features are computed on.                   *)
(***************************************************************************)
SortedByWeek(d) == \A i, j \in DOMAIN d : i < j => d[i].week <= d[j].week

\* C22: for every request that validation accepts, the frame the features are
\* computed on is sorted ascending by week and holds no two rows of one week.
C22_SortedUniqueTimeline ==
    (phase = "done" /\ training_history # <<>>)
        => (SortedByWeek(df) /\ UniqueWeeks(df))

(***************************************************************************)
(* Properties of the metrics where history is missing.                     *)
(***************************************************************************)
EarliestWeek(d) == CHOOSE w \in WeeksOf(d) : \A v \in WeeksOf(d) : w <= v

\* C23: at the earliest record of a timeline, with load L > 0 and whatever its
\* week number, acute load, chronic load and strain are L, ACWR and monotony
\* are 1 and the seven history-dependent metrics are 0; on a frame without
\* injury labels recent_injury is 0 at every week.
C23_NeutralAtEarliestRecord ==
    /\ (Computed /\ df # <<>> /\ target_week = EarliestWeek(df)
            /\ LoadAt(df, target_week) > 0) =>
           LET f == features[1]
               L == LoadAt(df, target_week)
           IN  /\ f.acute_load = Rat(L)
               /\ f.chronic_load = Rat(L)
               /\ f.strain = RootOf(Rat(L * L))
               /\ f.acwr = One
               /\ f.monotony = RootOne
               /\ f.week_over_week_change = Zero
               /\ f.acwr_trend = Zero
               /\ f.weeks_above_threshold = 0
               /\ f.distance_from_baseline = Zero
               /\ f.previous_week_acwr = Zero
               /\ f.two_weeks_ago_acwr = Zero
               /\ f.recent_injury = 0
    /\ \A w \in 1..MaxWeek : calculate_recent_injury(HistoryFrame(df), w) = 0

\* the earliest record is not week 1, later rows exist and one row is flagged
C23_Witness ==
    /\ Computed
    /\ Len(df) >= 2
    /\ target_week = EarliestWeek(df)
    /\ target_week > 1
    /\ LoadAt(df, target_week) = 35
    /\ \E i \in DOMAIN df : df[i].injured
    /\ features[1].strain = RootOf(Rat(1225))
    /\ features[1].acwr = One

(***************************************************************************)
(* Properties of the windows that look strictly before the week.           *)
(***************************************************************************)
\* the rows strictly before week w, and the n most recent of them
Before(d, w) == {i \in DOMAIN d : d[i].week < w}

LastBefore(d, w, n) ==
    {i \in Before(d, w) : Cardinality({j \in Before(d, w) : d[j].week > d[i].week}) < n}

\* the k-th smallest load of the rows S
KthLoad(d, S, k) ==
    LET x == CHOOSE y \in {d[i].weekly_load : i \in S} :
                 /\ Cardinality({i \in S : d[i].weekly_load < y}) < k
                 /\ k <= Cardinality({i \in S : d[i].weekly_load <= y})
    IN  x

MedianLoad(d, S) ==
    LET n == Cardinality(S)
    IN  IF n % 2 = 1 THEN Rat(KthLoad(d, S, (n + 1) \div 2))
        ELSE Frac(KthLoad(d, S, n \div 2) + KthLoad(d, S, n \div 2 + 1), 2)

\* C24: distance_from_baseline at a present week w is (load(w) - m) / m * 100
\* with m the median load of the up to 12 rows immediately before w's row
\* (never w's row or a later one), and 0 when there is no earlier row or m is
\* 0; recent_injury is 1 exactly when one of the up to 8 rows strictly before
\* w's row is flagged, so a flag on w itself does not set it.
C24_StrictlyPrecedingWindows ==
    (Computed /\ Present(target_week)) =>
        LET f == features[1]
            base == LastBefore(df, target_week, 12)
            recent == LastBefore(df, target_week, 8)
            cur == Rat(LoadAt(df, target_week))
        IN  /\ IF base = {} \/ MedianLoad(df, base) = Zero
               THEN f.distance_from_baseline = Zero
               ELSE LET m == MedianLoad(df, base)
                    IN  f.distance_from_baseline =
                            RMul(RDiv(RSub(cur, m), m), Rat(100))
            /\ f.recent_injury = IF \E i \in recent : df[i].injured THEN 1 ELSE 0

\* more than 12 rows precede the week, and the week itself is the injured one
C24_Witness ==
    /\ Computed
    /\ Present(target_week)
    /\ Cardinality(Before(df, target_week)) > 12
    /\ \E i \in DOMAIN df : df[i].week = target_week /\ df[i].injured
    /\ features[1].recent_injury = 0
    /\ features[1].distance_from_baseline = Frac(2600, 30)

\* an injury more than 8 rows back is forgotten
C24_WitnessForgotten ==
    /\ Computed
    /\ Present(target_week)
    /\ \E i \in Before(df, target_week) : df[i].injured
    /\ features[1].recent_injury = 0

(***************************************************************************)
(* Properties of the ACWR trend and of the ranges of the metrics.          *)
(***************************************************************************)
\* load of the row of week w over the mean load of the up to 4 rows ending there
AcwrAt(d, w) ==
    LET S == MostRecent(d, w, 4)
        total == SumLoads(d, S)
    IN  IF total = 0 THEN Zero
        ELSE Frac(LoadAt(d, w) * Cardinality(S), total)

\* C25: with the default window of 2, acwr_trend at a present week is the ACWR
\* at its row minus the ACWR at the row immediately before it, and 0 when the
\* week is the earliest row or is absent.
C25_AcwrTrend ==
    Computed =>
        LET f == features[1]
        IN  IF Present(target_week) /\ Before(df, target_week) # {}
            THEN f.acwr_trend =
                     RSub(AcwrAt(df, target_week),
                          AcwrAt(df, PreviousRecordWeek(df, target_week)))
            ELSE f.acwr_trend = Zero

\* the row before the week is not the week numbered one less, and ACWR rose
C25_Witness ==
    /\ Computed
    /\ Present(target_week)
    /\ Before(df, target_week) # {}
    /\ (target_week - 1) \notin WeeksOf(df)
    /\ AcwrAt(df, PreviousRecordWeek(df, target_week)) = One
    /\ RLess(Zero, features[1].acwr_trend)

(***************************************************************************)
(* Properties of the service when the artifacts cannot be loaded.          *)
(***************************************************************************)
\* the handler that ran last asked for the predictor and the load failed
LoadFailed == result # <<>> /\ "stage" \in DOMAIN result[1]

\* C26: a request whose load of the classifier or the scaler fails is answered
\* with the server error 500, and the failure leaves the singleton unset, so
\* that the next request loads again.
C26_LoadFailureIsServerError ==
    /\ \A s \in served : s.status = 500
    /\ LoadFailed => (_predictor = <<>> /\ response[1].status = 500)

\* C27: the health check answers healthy with model_loaded true exactly when
\* the classifier and the scaler are loaded, and unhealthy with model_loaded
\* false, without failing, when they could not be loaded.
C27_HealthReportsModelLoaded ==
    phase = "health" =>
        /\ response[1].status = 200
        /\ response[1].model_loaded <=> _predictor # <<>>
        /\ response[1].health = IF _predictor # <<>> THEN "healthy" ELSE "unhealthy"

\* every attribute the constructor sets is set
Complete(self) ==
    /\ self.model # None
    /\ self.scaler # None
    /\ self.feature_order # None

\* C28: every predictor that get_predictor returns or publishes has its
\* classifier, its scaler and its feature_order set, whatever files were
\* missing or unreadable at the attempts before, and model_info's
\* model_loaded and scaler_loaded are true of it.
C28_NoPartialPredictor ==
    LET got == GetPredictorOutcome(_predictor, models_dir, load_count)
    IN  /\ got.ok =>
               /\ Complete(got.predictor)
               /\ get_model_info(got.predictor).model_loaded
               /\ get_model_info(got.predictor).scaler_loaded
        /\ _predictor # <<>> => Complete(_predictor[1])

\* a load that read the classifier and failed on the scaler, then a load that
\* succeeded and a model_info answer from its predictor
C28_Witness ==
    /\ \E s \in served : s.stage = "scaler"
    /\ _predictor # <<>>
    /\ phase = "model_info"
    /\ response[1].status = 200

AllPositive(d) == \A i \in DOMAIN d : d[i].weekly_load > 0

\* C29: on a timeline of positive loads, ACWR at a present week is above 0 and
\* at most the number k <= 4 of rows of its chronic window, and is 1 at the
\* earliest row; weeks_above_threshold at the row in 0-based position p is at
\* most p; the two lag features are not negative.
C29_Ranges ==
    (Computed /\ AllPositive(df)) =>
        LET f == features[1]
            p == Cardinality(Before(df, target_week))
            k == Min(4, p + 1)
        IN  /\ Present(target_week) =>
                   /\ RLess(Zero, f.acwr)
                   /\ ~RLess(Rat(k), f.acwr)
                   /\ p = 0 => f.acwr = One
                   /\ f.weeks_above_threshold <= p
            /\ ~RLess(f.previous_week_acwr, Zero)
            /\ ~RLess(f.two_weeks_ago_acwr, Zero)

\* six rows of rising positive loads: every row but the first is above 1.3
C29_Witness ==
    /\ Computed
    /\ AllPositive(df)
    /\ Present(target_week)
    /\ Cardinality(Before(df, target_week)) = 5
    /\ features[1].weeks_above_threshold = 5
    /\ RLess(AcwrThreshold, features[1].acwr)
    /\ RLess(One, features[1].previous_week_acwr)

(***************************************************************************)
(* Properties of the order of the request's list.                          *)
(***************************************************************************)
\* the list h with its entries in the order pi
Reordered(h, pi) == [i \in DOMAIN h |-> h[pi[i]]]

\* the reordering of h that lists the weeks in ascending order
Ascending(h) ==
    Reordered(h, CHOOSE pi \in Permutations(DOMAIN h) :
                     \A i, j \in DOMAIN h : i < j => h[pi[i]].week < h[pi[j]].week)

\* C30: for a training_history of unique weeks, predict computes the target
\* week and the mapping of 17 features that it computes for the same records
\* listed in ascending order; every two reorderings of the same records thus
\* get the same target week and the same mapping.
C30_OrderInvariance ==
    (phase = "done" /\ training_history # <<>> /\ UniqueWeeks(training_history)) =>
        LET h == Ascending(training_history)
        IN  /\ Cardinality(DOMAIN features[1]) = 17
            /\ MaxWeekOf(h) = target_week
            /\ h[Len(h)].week = target_week
            /\ calculate_features_for_prediction(h, athlete_profile,
                                                 h[Len(h)].week) = features[1]

\* a request that lists its latest week first
C30_Witness ==
    /\ phase = "done"
    /\ Len(training_history) >= 2
    /\ UniqueWeeks(training_history)
    /\ training_history[1].week = target_week
    /\ training_history = <<[week |-> 2, weekly_load |-> 35],
                            [week |-> 1, weekly_load |-> 20]>>
    /\ features[1].acwr = Frac(70, 55)
    /\ response[1].status = 200

\* the five weeks of the example listed out of order, answered
C30_WitnessShuffled ==
    /\ phase = "done"
    /\ training_history = ShuffledHistory
    /\ target_week = 5
    /\ response[1].status = 200

====
